---- MODULE Spec2Model ----
(***************************************************************************)
(* The AMQP consuming connector of zato/server/amqp/channel.py:            *)
(* ConsumingConnection (one broker subscription with its I/O thread) and   *)
(* ConsumingConnector (the channel's configuration, its consumer, the      *)
(* locks guarding reconfiguration, the control-message filter and the      *)
(* forwarding callback).                                                   *)
(***************************************************************************)
EXTENDS Integers, Sequences, FiniteSets, TLC

\* Control messages sent to the connector in a run without deliveries.
MaxInstr == 2
\* Control messages and AMQP deliveries in a run with deliveries.
MaxInstrIO == 1
MaxDeliveries == 2
\* Bits of the random component of a consumer tag (getrandbits(64) in the
\* code) and the calls of consume() in a run that generates tags.
RandBits == 4
MaxConsume == 2

\* The thread running ConsumingConnector.__init__ and the threads on which
\* the on_broker_pull_msg_* handlers run.
Main == "main"
Handlers == {"h1", "h2"}
HandlerNo(t) == IF t = "h1" THEN 1 ELSE 2
Threads == {Main} \cup Handlers

Ids == {1, 2}
\* The channel the connector was started for (ZATO_CONNECTOR_AMQP_CHANNEL_ID).
OwnId == CHOOSE i \in Ids : \A j \in Ids : i <= j

\* Two generations of a channel's settings: queue, tag prefix and service.
Queues == <<"orders", "orders_v2">>
Prefixes == <<"tagA", "tagB">>
Services == <<"svc.orders", "svc.orders_v2">>

\* The attributes _setup_odb copies from the ODB item; a CREATE/EDIT message
\* carries the same attributes.
Config(i, a, g) ==
    [id |-> i, name |-> "ch", is_active |-> a, queue |-> Queues[g],
     consumer_tag_prefix |-> Prefixes[g], service |-> Services[g]]

Configs == { Config(i, TRUE, g) : i \in Ids, g \in 1..2 } \cup { Config(i, FALSE, 1) : i \in Ids }

NoConfig == [id |-> 0]
None == 0

\* self.channel_amqp: the attributes above plus 'consumer' (None until line
\* 147 or 166 sets it).
WithConsumer(cfg, c) ==
    [id |-> cfg.id, name |-> cfg.name, is_active |-> cfg.is_active,
     queue |-> cfg.queue, consumer_tag_prefix |-> cfg.consumer_tag_prefix,
     service |-> cfg.service, consumer |-> c]

CHANNEL_AMQP_CREATE == "CHANNEL_AMQP_CREATE"
CHANNEL_AMQP_EDIT == "CHANNEL_AMQP_EDIT"
CHANNEL_AMQP_DELETE == "CHANNEL_AMQP_DELETE"
CHANNEL_AMQP_CLOSE == "CHANNEL_AMQP_CLOSE"
AMQP_MESSAGE_RECEIVED == "CHANNEL_AMQP_MESSAGE_RECEIVED"
\* Any action of another family (definitions, outgoing connections ...).
OTHER_ACTION == "OTHER"

\* The messages published to all connectors.
Msgs ==
    { [action |-> a, id |-> cfg.id, cfg |-> cfg] :
        a \in {CHANNEL_AMQP_CREATE, CHANNEL_AMQP_EDIT}, cfg \in Configs }
    \cup
    { [action |-> CHANNEL_AMQP_DELETE, id |-> i, cfg |-> NoConfig] : i \in Ids }
    \cup
    { [action |-> a, id |-> None, cfg |-> NoConfig] :
        a \in {CHANNEL_AMQP_CLOSE, OTHER_ACTION} }

NoMsg == [action |-> "none", id |-> None, cfg |-> NoConfig]

Bodies == {"{id:42}", "{id:43}"}
Headers == "header_frame"

VARIABLES
    channel_amqp,   \* self.channel_amqp
    consumers,      \* every ConsumingConnection created so far, in order
    lock,           \* owner of out_amqp_lock, def_amqp_lock, channel_amqp_lock
    pc,             \* position of each control thread
    local,          \* the local 'consumer' of _recreate_amqp_consumer, per thread
    cur,            \* the message each handler thread is working on
    instrLeft,      \* control messages the environment has yet to send
    stopped,        \* the connector process has been terminated
    iopc,           \* position of each consumer's I/O thread
    iod,            \* the delivery each I/O thread is handling, with what
                    \* has been published and acknowledged for it
    params,         \* the dict _on_amqp_message builds, per I/O thread
    nDeliv,         \* deliveries the broker has made so far
    tags            \* the consumer tags consume() has generated, with the
                    \* values they were made from

vars == <<channel_amqp, consumers, lock, pc, local, cur, instrLeft, stopped,
          iopc, iod, params, nDeliv, tags>>

ctlVars == <<channel_amqp, lock, pc, local, cur, instrLeft, stopped>>
ioVars == <<iopc, iod, params, nDeliv>>
tagVars == <<tags>>

Free == "free"
NoParams == [action |-> "none"]
NoDelivery == [delivery_tag |-> 0]

\* The ConsumingConnection _amqp_consumer builds (lines 150-152) and whose
\* thread it starts (153-154). 'rebuild' records how the call of
\* _recreate_amqp_consumer that made the consumer ended.
AmqpConsumer(cfg) ==
    [state |-> "started", name |-> cfg.name, queue |-> cfg.queue,
     consumer_tag_prefix |-> cfg.consumer_tag_prefix, rebuild |-> "running"]

InitConnector ==
    /\ channel_amqp \in { WithConsumer(cfg, None) : cfg \in {c \in Configs : c.id = OwnId} }
    /\ consumers = << >>
    /\ lock = [l \in {"out", "def", "chan"} |-> Free]
    /\ pc = [t \in Threads |-> IF t = Main THEN "setup_acq_out" ELSE "idle"]
    /\ local = [t \in Threads |-> None]
    /\ cur = [t \in Threads |-> NoMsg]
    /\ stopped = FALSE
    /\ iopc = << >>
    /\ iod = << >>
    /\ params = << >>
    /\ nDeliv = 0
    /\ tags = {}

\* A run of control messages only.
Init ==
    /\ InitConnector
    /\ instrLeft = MaxInstr

\* A run with deliveries, from the state in which the constructor returns:
\* _setup_amqp has run alone and has started a consumer for an active channel.
InitIO ==
    /\ \E cfg \in {c \in Configs : c.id = OwnId} :
          /\ channel_amqp = WithConsumer(cfg, IF cfg.is_active THEN 1 ELSE None)
          /\ consumers = IF cfg.is_active
                         THEN << [AmqpConsumer(cfg) EXCEPT !.rebuild = "returned"] >>
                         ELSE << >>
    /\ iopc = [c \in 1..Len(consumers) |-> "wait"]
    /\ iod = [c \in 1..Len(consumers) |-> NoDelivery]
    /\ params = [c \in 1..Len(consumers) |-> NoParams]
    /\ lock = [l \in {"out", "def", "chan"} |-> Free]
    /\ pc = [t \in Threads |-> IF t = Main THEN "done" ELSE "idle"]
    /\ local = [t \in Threads |-> None]
    /\ cur = [t \in Threads |-> NoMsg]
    /\ stopped = FALSE
    /\ nDeliv = 0
    /\ tags = {}
    /\ instrLeft = MaxInstrIO

\* A consumer goes "started" (Thread.start() done, conn not open yet) ->
\* "open" (conn.is_open, the channel is open and consume() has subscribed),
\* and ends "closed" or "failed". It is live from Thread.start() until it is
\* closed or its connection attempt has failed.
Live(c) == consumers[c].state \in {"started", "open"}
LiveConsumers == { c \in 1..Len(consumers) : Live(c) }

-----------------------------------------------------------------------------
(* ConsumingConnector.filter and the dispatch of accepted messages *)

\* filter without the comparison of line 123.
FilterAnyChannel(msg, baseAccepts) ==
    IF baseAccepts THEN "True"
    ELSE IF msg.action \in {CHANNEL_AMQP_EDIT, CHANNEL_AMQP_DELETE}
         THEN "True"
         ELSE "False"

\* filter(msg), lines 119-128: True, False, or None when an EDIT/DELETE names
\* another channel and the function falls off its end.
Filter(msg, baseAccepts) ==
    IF baseAccepts THEN "True"
    ELSE IF msg.action \in {CHANNEL_AMQP_EDIT, CHANNEL_AMQP_DELETE}
         THEN IF channel_amqp.id = msg.id THEN "True" ELSE "None"
         ELSE "False"

Truthy(v) == v = "True"

\* The handler a message is dispatched to: on_broker_pull_msg_<action>.
HandlerOf(action) ==
    CASE action = CHANNEL_AMQP_CREATE -> "h_create"
      [] action = CHANNEL_AMQP_EDIT -> "h_edit"
      [] action = CHANNEL_AMQP_DELETE -> "h_delete"
      [] action = CHANNEL_AMQP_CLOSE -> "h_close"
      [] OTHER -> "h_other"

\* BaseConnector.filter accepts only messages addressed to this connector's
\* process: never one that names another channel.
BaseMayAccept(msg) == msg.id \in {None, OwnId}

\* A control message arrives at the first free handler thread and is
\* filtered; b is what BaseConnector.filter says of it. An accepted message
\* goes to its handler, a rejected one is dropped.
OnBrokerMsg(t, msg, b) ==
    /\ ~stopped
    /\ pc[t] = "idle"
    /\ \A u \in Handlers : pc[u] = "idle" => HandlerNo(t) <= HandlerNo(u)
    /\ b => BaseMayAccept(msg)
    /\ instrLeft > 0
    /\ instrLeft' = instrLeft - 1
    /\ IF Truthy(Filter(msg, b))
       THEN /\ pc' = [pc EXCEPT ![t] = HandlerOf(msg.action)]
            /\ cur' = [cur EXCEPT ![t] = msg]
       ELSE UNCHANGED <<pc, cur>>
    /\ UNCHANGED <<channel_amqp, consumers, lock, local, stopped>>
    /\ UNCHANGED ioVars
    /\ UNCHANGED tagVars

\* A message of another family, accepted by the base filter, is handled by
\* code that touches nothing of the channel.
OtherHandler(t) ==
    /\ ~stopped
    /\ pc[t] = "h_other"
    /\ pc' = [pc EXCEPT ![t] = "idle"]
    /\ cur' = [cur EXCEPT ![t] = NoMsg]
    /\ UNCHANGED <<channel_amqp, consumers, lock, local, instrLeft, stopped>>
    /\ UNCHANGED ioVars
    /\ UNCHANGED tagVars

-----------------------------------------------------------------------------
(* Locks *)

Acquire(l, t) ==
    /\ lock[l] = Free
    /\ lock' = [lock EXCEPT ![l] = t]

-----------------------------------------------------------------------------
(* _recreate_amqp_consumer and what it calls *)

\* Where _recreate_amqp_consumer returns to.
ReturnPc(t) == IF t = Main THEN "setup_rel" ELSE "ce_rel"

\* Line 134 testing only that there is a consumer.
ShouldCloseAnyConsumer == channel_amqp.consumer # None

\* The condition of line 134.
ShouldClose ==
    /\ channel_amqp.consumer # None
    /\ consumers[channel_amqp.consumer].state = "open"

\* _stop_amqp_connection, lines 134-135, called at line 142.
StopAmqpConnection(t) ==
    /\ ~stopped
    /\ pc[t] = "stop"
    /\ consumers' = IF ShouldClose
                    THEN [consumers EXCEPT ![channel_amqp.consumer].state = "closed"]
                    ELSE consumers
    /\ pc' = [pc EXCEPT ![t] = "create"]
    /\ UNCHANGED <<channel_amqp, lock, local, cur, instrLeft, stopped>>
    /\ UNCHANGED ioVars
    /\ UNCHANGED tagVars

\* Lines 145-146: nothing for an inactive channel, else a new consumer.
RecreateCreate(t) ==
    /\ ~stopped
    /\ pc[t] = "create"
    /\ IF channel_amqp.is_active
       THEN /\ consumers' = Append(consumers, AmqpConsumer(channel_amqp))
            /\ iopc' = Append(iopc, "wait")
            /\ iod' = Append(iod, NoDelivery)
            /\ params' = Append(params, NoParams)
            /\ local' = [local EXCEPT ![t] = Len(consumers) + 1]
            /\ pc' = [pc EXCEPT ![t] = "assign"]
       ELSE /\ pc' = [pc EXCEPT ![t] = ReturnPc(t)]
            /\ UNCHANGED <<consumers, iopc, iod, params, local>>
    /\ UNCHANGED <<channel_amqp, lock, cur, instrLeft, stopped, nDeliv>>
    /\ UNCHANGED tagVars

\* _recreate_amqp_consumer without the assignment of line 147.
RecreateWithoutAssign(t) ==
    /\ ~stopped
    /\ pc[t] = "assign"
    /\ consumers' = [consumers EXCEPT ![local[t]].rebuild = "returned"]
    /\ pc' = [pc EXCEPT ![t] = ReturnPc(t)]
    /\ UNCHANGED <<channel_amqp, lock, local, cur, instrLeft, stopped>>
    /\ UNCHANGED ioVars
    /\ UNCHANGED tagVars

\* Line 147, after which _recreate_amqp_consumer returns.
RecreateAssign(t) ==
    /\ ~stopped
    /\ pc[t] = "assign"
    /\ channel_amqp' = [channel_amqp EXCEPT !.consumer = local[t]]
    /\ consumers' = [consumers EXCEPT ![local[t]].rebuild = "returned"]
    /\ pc' = [pc EXCEPT ![t] = ReturnPc(t)]
    /\ UNCHANGED <<lock, local, cur, instrLeft, stopped>>
    /\ UNCHANGED ioVars
    /\ UNCHANGED tagVars

-----------------------------------------------------------------------------
(* _setup_amqp, on the thread that constructs the connector *)

\* Line 110.
SetupAmqpAcqOut(t) ==
    /\ ~stopped
    /\ pc[t] = "setup_acq_out"
    /\ Acquire("out", t)
    /\ pc' = [pc EXCEPT ![t] = "setup_acq_def"]
    /\ UNCHANGED <<channel_amqp, consumers, local, cur, instrLeft, stopped>>
    /\ UNCHANGED ioVars
    /\ UNCHANGED tagVars

\* _setup_amqp without the with-block of line 111.
SetupAmqpWithoutDefLock(t) ==
    /\ ~stopped
    /\ pc[t] = "setup_acq_def"
    /\ pc' = [pc EXCEPT ![t] = "stop"]
    /\ UNCHANGED <<channel_amqp, consumers, lock, local, cur, instrLeft, stopped>>
    /\ UNCHANGED ioVars
    /\ UNCHANGED tagVars

\* Line 111; line 112 then calls _recreate_amqp_consumer.
SetupAmqpAcqDef(t) ==
    /\ ~stopped
    /\ pc[t] = "setup_acq_def"
    /\ Acquire("def", t)
    /\ pc' = [pc EXCEPT ![t] = "stop"]
    /\ UNCHANGED <<channel_amqp, consumers, local, cur, instrLeft, stopped>>
    /\ UNCHANGED ioVars
    /\ UNCHANGED tagVars

\* Leaving the with-blocks of lines 111 and 110.
SetupAmqpRelease(t) ==
    /\ ~stopped
    /\ pc[t] = "setup_rel"
    /\ lock["def"] = t /\ lock["out"] = t
    /\ lock' = [lock EXCEPT !["def"] = Free, !["out"] = Free]
    /\ pc' = [pc EXCEPT ![t] = "done"]
    /\ UNCHANGED <<channel_amqp, consumers, local, cur, instrLeft, stopped>>
    /\ UNCHANGED ioVars
    /\ UNCHANGED tagVars

-----------------------------------------------------------------------------
(* _channel_amqp_create_edit and the handlers *)

\* Line 162.
CreateEditAcqDef(t) ==
    /\ ~stopped
    /\ Acquire("def", t)
    /\ pc' = [pc EXCEPT ![t] = "ce_acq_chan"]
    /\ UNCHANGED <<channel_amqp, consumers, local, cur, instrLeft, stopped>>
    /\ UNCHANGED ioVars
    /\ UNCHANGED tagVars

\* A CREATE handler that does nothing for a channel that has a consumer.
CreateOnlyWithoutConsumer(t) ==
    /\ pc[t] = "h_create"
    /\ IF channel_amqp.consumer = None
       THEN CreateEditAcqDef(t)
       ELSE /\ ~stopped
            /\ pc' = [pc EXCEPT ![t] = "idle"]
            /\ cur' = [cur EXCEPT ![t] = NoMsg]
            /\ UNCHANGED <<channel_amqp, consumers, lock, local, instrLeft, stopped>>
            /\ UNCHANGED ioVars
            /\ UNCHANGED tagVars

\* Line 184: the handler only calls _channel_amqp_create_edit.
on_broker_pull_msg_CHANNEL_AMQP_CREATE(t) ==
    /\ pc[t] = "h_create"
    /\ CreateEditAcqDef(t)

\* Line 190: the same call.
on_broker_pull_msg_CHANNEL_AMQP_EDIT(t) ==
    /\ pc[t] = "h_edit"
    /\ CreateEditAcqDef(t)

\* _channel_amqp_create_edit taking out_amqp_lock inside def_amqp_lock.
CreateEditAcqOut(t) ==
    /\ ~stopped
    /\ pc[t] = "ce_acq_chan"
    /\ Acquire("out", t)
    /\ pc' = [pc EXCEPT ![t] = "ce_swap"]
    /\ UNCHANGED <<channel_amqp, consumers, local, cur, instrLeft, stopped>>
    /\ UNCHANGED ioVars
    /\ UNCHANGED tagVars

\* Line 163.
CreateEditAcqChan(t) ==
    /\ ~stopped
    /\ pc[t] = "ce_acq_chan"
    /\ Acquire("chan", t)
    /\ pc' = [pc EXCEPT ![t] = "ce_swap"]
    /\ UNCHANGED <<channel_amqp, consumers, local, cur, instrLeft, stopped>>
    /\ UNCHANGED ioVars
    /\ UNCHANGED tagVars

\* Lines 164-166: the message replaces channel_amqp, keeping only the old
\* consumer; line 167 then calls _recreate_amqp_consumer.
CreateEditSwap(t) ==
    /\ ~stopped
    /\ pc[t] = "ce_swap"
    /\ channel_amqp' = WithConsumer(cur[t].cfg, channel_amqp.consumer)
    /\ pc' = [pc EXCEPT ![t] = "stop"]
    /\ UNCHANGED <<consumers, lock, local, cur, instrLeft, stopped>>
    /\ UNCHANGED ioVars
    /\ UNCHANGED tagVars

\* Leaving the with-blocks of lines 163 and 162; the handler is done.
CreateEditRelease(t) ==
    /\ ~stopped
    /\ pc[t] = "ce_rel"
    /\ lock["chan"] = t /\ lock["def"] = t
    /\ lock' = [lock EXCEPT !["chan"] = Free, !["def"] = Free]
    /\ pc' = [pc EXCEPT ![t] = "idle"]
    /\ cur' = [cur EXCEPT ![t] = NoMsg]
    /\ UNCHANGED <<channel_amqp, consumers, local, instrLeft, stopped>>
    /\ UNCHANGED ioVars
    /\ UNCHANGED tagVars

\* BaseConnector._close: the process is terminated, which ends every thread
\* and closes every broker connection of the process.
BaseClose(t) ==
    /\ ~stopped
    /\ stopped' = TRUE
    /\ consumers' = [c \in 1..Len(consumers) |->
                        IF Live(c) THEN [consumers[c] EXCEPT !.state = "closed"]
                        ELSE consumers[c]]
    /\ pc' = [u \in Threads |-> "exit"]
    /\ iopc' = [c \in 1..Len(consumers) |-> "exit"]
    /\ iod' = [c \in 1..Len(consumers) |-> NoDelivery]
    /\ params' = [c \in 1..Len(consumers) |-> NoParams]
    /\ lock' = [l \in DOMAIN lock |-> Free]
    /\ local' = [u \in Threads |-> None]
    /\ cur' = [u \in Threads |-> NoMsg]
    /\ UNCHANGED <<channel_amqp, instrLeft, nDeliv>>
    /\ UNCHANGED tagVars

\* A DELETE handler that returns without calling _close.
DeleteWithoutClose(t) ==
    /\ ~stopped
    /\ pc[t] = "h_delete"
    /\ pc' = [pc EXCEPT ![t] = "idle"]
    /\ cur' = [cur EXCEPT ![t] = NoMsg]
    /\ UNCHANGED <<channel_amqp, consumers, lock, local, instrLeft, stopped>>
    /\ UNCHANGED ioVars
    /\ UNCHANGED tagVars

\* Line 196.
on_broker_pull_msg_CHANNEL_AMQP_DELETE(t) ==
    /\ pc[t] = "h_delete"
    /\ BaseClose(t)

\* Line 201.
on_broker_pull_msg_CHANNEL_AMQP_CLOSE(t) ==
    /\ pc[t] = "h_close"
    /\ BaseClose(t)

-----------------------------------------------------------------------------
(* The consumer's thread: connecting, then the I/O loop *)

\* The connection attempt fails inside the consumer's thread.
OpenFail(c) ==
    /\ ~stopped
    /\ consumers[c].state = "started"
    /\ consumers' = [consumers EXCEPT ![c].state = "failed"]
    /\ UNCHANGED ctlVars
    /\ UNCHANGED ioVars
    /\ UNCHANGED tagVars

\* _on_channel_open, lines 50-54: the connection and its channel are open
\* and consume() has subscribed to the queue.
OnChannelOpen(c) ==
    /\ ~stopped
    /\ consumers[c].state = "started"
    /\ consumers' = [consumers EXCEPT ![c].state = "open"]
    /\ UNCHANGED ctlVars
    /\ UNCHANGED ioVars
    /\ UNCHANGED tagVars

\* A delivery handed to _on_basic_consume while the previous one is still
\* being handled.
DeliverWhileHandling(c, body) ==
    /\ ~stopped
    /\ consumers[c].state = "open"
    /\ iopc[c] # "exit"
    /\ nDeliv < MaxDeliveries
    /\ nDeliv' = nDeliv + 1
    /\ iod' = [iod EXCEPT ![c] =
          [consumer |-> c, delivery_tag |-> nDeliv + 1, header_frame |-> Headers,
           body |-> body, callback |-> "pending", sends |-> 0,
           published |-> << >>, acks |-> 0]]
    /\ iopc' = [iopc EXCEPT ![c] = "callback"]
    /\ UNCHANGED <<consumers, params>>
    /\ UNCHANGED ctlVars
    /\ UNCHANGED tagVars

\* The broker hands a message to _on_basic_consume (line 56); the delivery
\* tag is the delivery's number. 'sends' counts the send_json calls made for
\* the delivery, 'published' collects the events they have put on the bus,
\* 'acks' counts the basic_ack calls made with its tag.
Deliver(c, body) ==
    /\ ~stopped
    /\ consumers[c].state = "open"
    /\ iopc[c] = "wait"
    /\ nDeliv < MaxDeliveries
    /\ nDeliv' = nDeliv + 1
    /\ iod' = [iod EXCEPT ![c] =
          [consumer |-> c, delivery_tag |-> nDeliv + 1, header_frame |-> Headers,
           body |-> body, callback |-> "pending", sends |-> 0,
           published |-> << >>, acks |-> 0]]
    /\ iopc' = [iopc EXCEPT ![c] = "callback"]
    /\ UNCHANGED <<consumers, params>>
    /\ UNCHANGED ctlVars
    /\ UNCHANGED tagVars

\* new_rid(): an id no earlier call returned. Every delivery made so far has
\* drawn one, but for those whose callback has not reached line 175.
NewRid == nDeliv - Cardinality({ c \in 1..Len(consumers) : iopc[c] = "callback" }) + 1

\* The dict with the header frame in place of the body.
OnAmqpMessageParamsHeader(body, rid) ==
    [action |-> AMQP_MESSAGE_RECEIVED, service |-> channel_amqp.service,
     rid |-> rid, payload |-> Headers]

\* The dict of lines 172-176.
OnAmqpMessageParams(body, rid) ==
    [action |-> AMQP_MESSAGE_RECEIVED, service |-> channel_amqp.service,
     rid |-> rid, payload |-> body]

\* _on_amqp_message up to line 176, called at line 59.
OnAmqpMessageBuild(c) ==
    /\ ~stopped
    /\ iopc[c] = "callback"
    /\ params' = [params EXCEPT ![c] = OnAmqpMessageParams(iod[c].body, NewRid)]
    /\ iopc' = [iopc EXCEPT ![c] = "send"]
    /\ UNCHANGED <<consumers, iod, nDeliv>>
    /\ UNCHANGED ctlVars
    /\ UNCHANGED tagVars

\* _on_basic_consume acknowledging whatever the callback did.
AfterCallbackAlwaysAck(returned) == "ack"

\* Line 60 is reached only when the callback of line 59 returned; an
\* exception leaves _on_basic_consume.
AfterCallback(returned) == IF returned THEN "ack" ELSE "done"

\* Line 178: send_json goes through and the callback returns.
OnAmqpMessageSend(c) ==
    /\ ~stopped
    /\ iopc[c] = "send"
    /\ iod' = [iod EXCEPT ![c].callback = "returned",
                          ![c].sends = @ + 1,
                          ![c].published = Append(@, params[c])]
    /\ params' = [params EXCEPT ![c] = NoParams]
    /\ iopc' = [iopc EXCEPT ![c] = AfterCallback(TRUE)]
    /\ UNCHANGED <<consumers, nDeliv>>
    /\ UNCHANGED ctlVars
    /\ UNCHANGED tagVars

\* Line 178: send_json raises and so does the callback.
OnAmqpMessageRaise(c) ==
    /\ ~stopped
    /\ iopc[c] = "send"
    /\ iod' = [iod EXCEPT ![c].callback = "raised", ![c].sends = @ + 1]
    /\ params' = [params EXCEPT ![c] = NoParams]
    /\ iopc' = [iopc EXCEPT ![c] = AfterCallback(FALSE)]
    /\ UNCHANGED <<consumers, nDeliv>>
    /\ UNCHANGED ctlVars
    /\ UNCHANGED tagVars

\* _on_basic_consume acknowledging the delivery twice.
BasicAckTwice(c) ==
    /\ ~stopped
    /\ iopc[c] = "ack"
    /\ iod' = [iod EXCEPT ![c].acks = @ + 2]
    /\ iopc' = [iopc EXCEPT ![c] = "done"]
    /\ UNCHANGED <<consumers, params, nDeliv>>
    /\ UNCHANGED ctlVars
    /\ UNCHANGED tagVars

\* Line 60, the last of _on_basic_consume.
BasicAck(c) ==
    /\ ~stopped
    /\ iopc[c] = "ack"
    /\ iod' = [iod EXCEPT ![c].acks = @ + 1]
    /\ iopc' = [iopc EXCEPT ![c] = "done"]
    /\ UNCHANGED <<consumers, params, nDeliv>>
    /\ UNCHANGED ctlVars
    /\ UNCHANGED tagVars

\* _on_basic_consume is left and with it the delivery: nothing of the
\* connector refers to its tag any more. The I/O loop waits for a frame.
OnBasicConsumeReturn(c) ==
    /\ ~stopped
    /\ iopc[c] = "done"
    /\ iod' = [iod EXCEPT ![c] = NoDelivery]
    /\ iopc' = [iopc EXCEPT ![c] = "wait"]
    /\ UNCHANGED <<consumers, params, nDeliv>>
    /\ UNCHANGED ctlVars
    /\ UNCHANGED tagVars

-----------------------------------------------------------------------------
(* ConsumingConnection.consume: the consumer tag *)

\* The width given to ljust at line 70.
TagWidth == 72

Digit == <<"0", "1", "2", "3", "4", "5", "6", "7", "8", "9">>

\* '{0}'.format(n) for a non-negative integer: its decimal digits.
RECURSIVE Dec(_)
Dec(n) == IF n < 10 THEN Digit[n + 1] ELSE Dec(n \div 10) \o Digit[(n % 10) + 1]

\* n copies of the fill character.
RECURSIVE Fill(_, _)
Fill(fill, n) == IF n <= 0 THEN "" ELSE fill \o Fill(fill, n - 1)

\* ljust cutting a longer string down to the width.
LjustTruncating(s, width, fill) ==
    IF Len(s) >= width THEN SubSeq(s, 1, width) ELSE s \o Fill(fill, width - Len(s))

\* s.ljust(width, fill): s itself when it is at least width long, else s
\* followed by as many fill characters as it takes to make it width long.
Ljust(s, width, fill) ==
    IF Len(s) >= width THEN s ELSE s \o Fill(fill, width - Len(s))

\* What gethostbyname(gethostname()), getfqdn(), getpid() and getrandbits
\* return at line 69-70.
HostIps == {"10.0.0.5"}
Fqdns == {"amqp1.example.com",
          "amqp-consumer-17.integration.eu-central.internal.example.com"}
Pids == {4711}
RandomValues == 0 .. (2^RandBits - 1)
TagPrefixes == { Prefixes[g] : g \in DOMAIN Prefixes }

\* The fields joined by ':' (line 68), before the padding.
JoinedTag(prefix, ip, fqdn, pid, rnd) ==
    prefix \o ":" \o ip \o ":" \o fqdn \o ":" \o Dec(pid) \o ":" \o Dec(rnd)

\* Lines 68-70.
ConsumerTag(prefix, ip, fqdn, pid, rnd) ==
    Ljust(JoinedTag(prefix, ip, fqdn, pid, rnd), TagWidth, "0")

\* consume(), lines 65-72, called without arguments at line 54: the prefix
\* is the connection's own.
Consume(prefix, ip, fqdn, pid, rnd) ==
    /\ Cardinality(tags) < MaxConsume
    /\ tags' = tags \cup
          { [consumer_tag_prefix |-> prefix, ip |-> ip, fqdn |-> fqdn, pid |-> pid,
             random |-> rnd,
             consumer_tag |-> ConsumerTag(prefix, ip, fqdn, pid, rnd)] }
    /\ UNCHANGED ctlVars
    /\ UNCHANGED ioVars
    /\ UNCHANGED consumers

-----------------------------------------------------------------------------

\* _setup_amqp on the constructing thread.
NextSetup ==
    \/ SetupAmqpAcqOut(Main)
    \/ SetupAmqpAcqDef(Main)
    \/ SetupAmqpRelease(Main)

\* The control messages and their handlers, _recreate_amqp_consumer on
\* whichever thread runs it, and the consumers' connecting.
NextControl ==
    \/ \E t \in Handlers, msg \in Msgs, b \in BOOLEAN : OnBrokerMsg(t, msg, b)
    \/ \E t \in Handlers : OtherHandler(t)
    \/ \E t \in Threads : StopAmqpConnection(t)
    \/ \E t \in Threads : RecreateCreate(t)
    \/ \E t \in Threads : RecreateAssign(t)
    \/ \E t \in Handlers : on_broker_pull_msg_CHANNEL_AMQP_CREATE(t)
    \/ \E t \in Handlers : on_broker_pull_msg_CHANNEL_AMQP_EDIT(t)
    \/ \E t \in Handlers : CreateEditAcqChan(t)
    \/ \E t \in Handlers : CreateEditSwap(t)
    \/ \E t \in Handlers : CreateEditRelease(t)
    \/ \E t \in Handlers : on_broker_pull_msg_CHANNEL_AMQP_DELETE(t)
    \/ \E t \in Handlers : on_broker_pull_msg_CHANNEL_AMQP_CLOSE(t)
    \/ \E c \in 1..Len(consumers) : OpenFail(c)
    \/ \E c \in 1..Len(consumers) : OnChannelOpen(c)

\* The steps of the consumers' I/O loops.
NextIO ==
    \/ \E c \in 1..Len(consumers), body \in Bodies : Deliver(c, body)
    \/ \E c \in 1..Len(consumers) : OnAmqpMessageBuild(c)
    \/ \E c \in 1..Len(consumers) : OnAmqpMessageSend(c)
    \/ \E c \in 1..Len(consumers) : OnAmqpMessageRaise(c)
    \/ \E c \in 1..Len(consumers) : BasicAck(c)
    \/ \E c \in 1..Len(consumers) : OnBasicConsumeReturn(c)

\* The calls of consume().
NextTag ==
    \E prefix \in TagPrefixes, ip \in HostIps, fqdn \in Fqdns, pid \in Pids,
       rnd \in RandomValues : Consume(prefix, ip, fqdn, pid, rnd)

Next == NextSetup \/ NextControl \/ NextIO \/ NextTag

\* The connector from the start of its constructor, under control messages:
\* no consumer is handed a delivery.
Spec == Init /\ [][NextSetup \/ NextControl]_vars

\* The connector from the return of its constructor, with broker deliveries.
SpecIO == InitIO /\ [][NextControl \/ NextIO]_vars

\* The steps thread t takes by itself, once it has a message or is in the
\* constructor.
ThreadStep(t) ==
    \/ OtherHandler(t)
    \/ StopAmqpConnection(t)
    \/ RecreateCreate(t)
    \/ RecreateAssign(t)
    \/ SetupAmqpAcqOut(t)
    \/ SetupAmqpAcqDef(t)
    \/ SetupAmqpRelease(t)
    \/ on_broker_pull_msg_CHANNEL_AMQP_CREATE(t)
    \/ on_broker_pull_msg_CHANNEL_AMQP_EDIT(t)
    \/ CreateEditAcqChan(t)
    \/ CreateEditSwap(t)
    \/ CreateEditRelease(t)
    \/ on_broker_pull_msg_CHANNEL_AMQP_DELETE(t)
    \/ on_broker_pull_msg_CHANNEL_AMQP_CLOSE(t)

\* Spec with every thread scheduled: a thread that can go on does.
SpecFair == Spec /\ \A t \in Threads : WF_vars(ThreadStep(t))

\* The tags generated by calls of consume() on the connections of one
\* process; the connector is left as constructed and receives nothing.
InitTag ==
    /\ InitConnector
    /\ channel_amqp = WithConsumer(Config(OwnId, TRUE, 1), None)
    /\ instrLeft = 0

SpecTag == InitTag /\ [][NextTag]_vars

-----------------------------------------------------------------------------
(* Properties *)

InFlight == { c \in 1..Len(consumers) : iod[c] # NoDelivery }

\* C1: acknowledgement gating in _on_basic_consume. A delivery whose
\* callback raised has no acknowledgement; a delivery is acknowledged at most
\* once and only after its callback has returned; and when _on_basic_consume
\* is left after the callback returned, the delivery has exactly one
\* acknowledgement.
C1_AckGating ==
    \A c \in InFlight :
        /\ iod[c].acks <= 1
        /\ iod[c].callback \in {"pending", "raised"} => iod[c].acks = 0
        /\ iod[c].acks = 1 => iod[c].callback = "returned"
        /\ (iopc[c] = "done" /\ iod[c].callback = "returned") => iod[c].acks = 1

\* A delivery has been acknowledged after its callback returned, while
\* another consumer's delivery, whose callback raised, was left unacknowledged.
C1_Witness ==
    \E c, k \in InFlight :
        /\ iopc[c] = "done" /\ iod[c].callback = "returned" /\ iod[c].acks = 1
        /\ iopc[k] = "done" /\ iod[k].callback = "raised" /\ iod[k].acks = 0

\* C2: after _channel_amqp_create_edit has rebuilt the consumer for an active
\* configuration, the consumer it started is the only live one, and it is
\* bound to the configuration's queue and tag prefix (its callback reads the
\* service name from the same configuration).
C2_ExactlyOneLiveConsumer ==
    \A t \in Handlers :
        (pc[t] = "ce_rel" /\ channel_amqp.is_active) =>
            /\ channel_amqp.consumer # None
            /\ LiveConsumers \subseteq {channel_amqp.consumer}
            /\ consumers[channel_amqp.consumer].state # "closed"
            /\ consumers[channel_amqp.consumer].queue = channel_amqp.queue
            /\ consumers[channel_amqp.consumer].consumer_tag_prefix
                  = channel_amqp.consumer_tag_prefix

\* C3: after _channel_amqp_create_edit has run for an inactive configuration
\* no consumer is live.
C3_NoLiveConsumerWhenInactive ==
    \A t \in Handlers :
        (pc[t] = "ce_rel" /\ ~channel_amqp.is_active) => LiveConsumers = {}

\* C4: at no point are two consumers of the connector live at once.
C4_AtMostOneLiveConsumer == Cardinality(LiveConsumers) <= 1

\* C5: a message the base filter does not accept is accepted by filter, and
\* so dispatched to its handler, exactly when it is an EDIT or a DELETE whose
\* id is the id of the connector's channel.
C5_FilterCorrect ==
    [][ \A t \in Handlers, msg \in Msgs :
          OnBrokerMsg(t, msg, FALSE) =>
             ( (pc'[t] = HandlerOf(msg.action) /\ cur'[t] = msg)
               <=> ( /\ msg.action \in {CHANNEL_AMQP_EDIT, CHANNEL_AMQP_DELETE}
                     /\ msg.id = channel_amqp.id ) ) ]_vars

\* A DELETE naming the connector's channel has been accepted and is with its
\* handler.
C5_Witness ==
    \E t \in Handlers :
        /\ pc[t] = "h_delete"
        /\ cur[t].action = CHANNEL_AMQP_DELETE
        /\ cur[t].id = channel_amqp.id

\* C6: a DELETE or CLOSE handler ends with the connector stopped and every
\* consumer closed; only such a handler stops the connector; and once it is
\* stopped nothing changes any more.
C6_StoppedTerminal ==
    [][ /\ ~stopped
        /\ \A t \in Handlers :
              (pc[t] \in {"h_delete", "h_close"} /\ pc'[t] # pc[t]) => stopped'
        /\ stopped' =>
              /\ \E t \in Handlers : pc[t] \in {"h_delete", "h_close"}
              /\ LiveConsumers' = {}
              /\ \A t \in Threads : pc'[t] = "exit" ]_vars

\* The connector has been stopped and a consumer it had started is closed.
C6_Witness ==
    /\ stopped
    /\ \E c \in 1..Len(consumers) : consumers[c].state = "closed"

RebuildPcs == {"stop", "create", "assign"}
Rebuilding == { t \in Threads : pc[t] \in RebuildPcs }

\* C7: at most one execution of _recreate_amqp_consumer is in progress.
C7_RebuildSerialized == Cardinality(Rebuilding) <= 1

\* A handler is rebuilding while _setup_amqp waits for the definition lock.
C7_Witness ==
    /\ pc[Main] = "setup_acq_def"
    /\ \E t \in Handlers : pc[t] \in RebuildPcs

\* C8: whoever executes _recreate_amqp_consumer holds the definition lock and
\* the channel lock.
C8_RebuildHoldsBothLocks ==
    \A t \in Rebuilding : lock["def"] = t /\ lock["chan"] = t

\* The rids of the events built or published for the deliveries in flight.
RidsOf(c) ==
    (IF params[c] # NoParams THEN {params[c].rid} ELSE {})
    \cup { iod[c].published[i].rid : i \in 1..Len(iod[c].published) }

\* C9: _on_amqp_message builds its event from the service name channel_amqp
\* holds at that moment, a rid no other event has, and the body of the
\* delivery, without the headers; it makes one send_json call with it, so one
\* event is published unless the call fails; and a delivery whose event was
\* published is acknowledged when _on_basic_consume is left.
C9_Forwarding ==
    /\ [](\A c \in InFlight :
            /\ iod[c].callback = "pending" => iod[c].sends = 0 /\ iod[c].published = << >>
            /\ iod[c].callback = "raised" => iod[c].sends = 1 /\ iod[c].published = << >>
            /\ iod[c].callback = "returned" =>
                  /\ iod[c].sends = 1
                  /\ Len(iod[c].published) = 1
                  /\ DOMAIN iod[c].published[1] = {"action", "service", "rid", "payload"}
                  /\ iod[c].published[1].action = AMQP_MESSAGE_RECEIVED
                  /\ iod[c].published[1].payload = iod[c].body
            /\ (iopc[c] = "done" /\ iod[c].published # << >>) => iod[c].acks = 1
            /\ \A k \in InFlight : k # c => RidsOf(c) \cap RidsOf(k) = {})
    /\ [][ \A c \in InFlight :
             /\ (iopc[c] = "callback" /\ iopc'[c] = "send") =>
                   params'[c].service = channel_amqp.service
             /\ (iopc[c] = "send" /\ iopc'[c] = "ack") =>
                   iod'[c].published = << params[c] >> ]_vars

\* An event with the body of its delivery has been published and the
\* delivery acknowledged, while another delivery is in flight.
C9_Witness ==
    \E c, k \in InFlight :
        /\ c # k
        /\ iopc[c] = "done" /\ iod[c].acks = 1
        /\ iod[c].published # << >> /\ iod[c].published[1].payload = iod[c].body
        /\ iod[k].published # << >>

C11_StopIdempotent ==
    [][ \A t \in Threads :
          StopAmqpConnection(t) =>
             /\ ( \/ channel_amqp.consumer = None
                  \/ consumers[channel_amqp.consumer].state
                        \in {"started", "failed", "closed"} )
                => UNCHANGED <<channel_amqp, consumers, lock, stopped>>
             /\ ~ShouldClose' ]_vars

\* _stop_amqp_connection has returned for a consumer whose connection attempt
\* failed, and the consumer is as it was.
C11_Witness ==
    \E t \in Threads :
        /\ pc[t] = "create"
        /\ channel_amqp.consumer # None
        /\ consumers[channel_amqp.consumer].state = "failed"


\* The positions of a handler inside the with-blocks of
\* _channel_amqp_create_edit.
CreateEditPcs == {"ce_swap", "stop", "create", "assign", "ce_rel"}

\* A delivery caught by a Create/Edit: its consumer has been closed or
\* replaced, or a handler is inside _channel_amqp_create_edit.
InTransition(c) ==
    \/ consumers[c].state = "closed"
    \/ c # channel_amqp.consumer
    \/ \E t \in Handlers : pc[t] \in CreateEditPcs

\* C12: a delivery in flight while a Create/Edit closes and reopens the
\* consumer is never acknowledged without its event having been published,
\* and never acknowledged more than once.
C12_NoLossNoDoubleAck ==
    \A c \in InFlight :
        InTransition(c) =>
            /\ iod[c].acks <= 1
            /\ iod[c].acks >= 1 =>
                  /\ Len(iod[c].published) = 1
                  /\ iod[c].published[1].payload = iod[c].body

\* A consumer closed by a rebuild, which has started another one, has
\* published the event of its delivery in flight and acknowledged it once.
C12_Witness ==
    \E c \in InFlight :
        /\ ~stopped
        /\ consumers[c].state = "closed"
        /\ Len(consumers) > c
        /\ iod[c].published # << >>
        /\ iod[c].acks = 1


\* C13: two tags generated from the same prefix, host address, host name and
\* process id with different random values are different.
C13_TagInjectiveInRandom ==
    \A a, b \in tags :
        ( /\ a.consumer_tag_prefix = b.consumer_tag_prefix
          /\ a.ip = b.ip /\ a.fqdn = b.fqdn /\ a.pid = b.pid
          /\ a.random # b.random )
        => a.consumer_tag # b.consumer_tag


\* C20, as claimed: every tag is exactly TagWidth characters long.
C20_TagFixedWidth ==
    \A a \in tags : Len(a.consumer_tag) = TagWidth

\* C20, amended: the tag is the five fields joined by ':' and followed by
\* as many '0' as it takes to make it TagWidth long; it is never cut, so it
\* is TagWidth long when the joined fields are at most that long and as long
\* as the joined fields otherwise.
C20_TagFormat ==
    \A a \in tags :
        LET joined == a.consumer_tag_prefix \o ":" \o a.ip \o ":" \o a.fqdn
                        \o ":" \o Dec(a.pid) \o ":" \o Dec(a.random)
            tag == a.consumer_tag
        IN  /\ Len(tag) = IF Len(joined) > TagWidth THEN Len(joined) ELSE TagWidth
            /\ SubSeq(tag, 1, Len(joined)) = joined
            /\ \A i \in (Len(joined) + 1) .. Len(tag) : SubSeq(tag, i, i) = "0"

\* One tag was padded to TagWidth and another, of a longer host name, is
\* longer than TagWidth.
C20_Witness ==
    \E a, b \in tags :
        /\ Len(a.consumer_tag) = TagWidth
        /\ SubSeq(a.consumer_tag, TagWidth, TagWidth) = "0"
        /\ Len(b.consumer_tag) > TagWidth


\* No thread is inside the with-blocks of _setup_amqp or of
\* _channel_amqp_create_edit.
OutsideCriticalSection == \A l \in DOMAIN lock : lock[l] = Free

\* C14: outside the critical section, a consumer reference that is present
\* refers to a consumer made from the current configuration, which is
\* active; and under an inactive configuration there is no consumer
\* reference.
C14_ConnectorStateInvariant ==
    (OutsideCriticalSection /\ ~stopped) =>
        /\ channel_amqp.consumer # None =>
              /\ channel_amqp.is_active
              /\ consumers[channel_amqp.consumer].queue = channel_amqp.queue
              /\ consumers[channel_amqp.consumer].consumer_tag_prefix
                    = channel_amqp.consumer_tag_prefix
        /\ ~channel_amqp.is_active => channel_amqp.consumer = None


\* The configuration held in channel_amqp, without the consumer reference.
ConfigOf(ch) ==
    [id |-> ch.id, name |-> ch.name, is_active |-> ch.is_active,
     queue |-> ch.queue, consumer_tag_prefix |-> ch.consumer_tag_prefix,
     service |-> ch.service]

\* C15: the CREATE and the EDIT handler do the same, whatever the state: each
\* enters _channel_amqp_create_edit with its message and changes nothing
\* else; the configuration is written only there, and is then the payload
\* of the message, with nothing of the earlier configuration but the
\* consumer reference; and when the handler leaves, the configuration is
\* the payload of its message.
C15_CreateEditEquivalent ==
    /\ [](\A t \in Handlers :
            pc[t] = "ce_rel" => ConfigOf(channel_amqp) = cur[t].cfg)
    /\ [][ /\ \A t \in Handlers :
                (pc[t] \in {"h_create", "h_edit"} /\ pc'[t] # pc[t] /\ ~stopped') =>
                    /\ pc'[t] = "ce_acq_chan"
                    /\ lock' = [lock EXCEPT !["def"] = t]
                    /\ cur'[t] = cur[t]
                    /\ UNCHANGED <<channel_amqp, consumers>>
           /\ ConfigOf(channel_amqp') # ConfigOf(channel_amqp) =>
                \E t \in Handlers :
                    /\ pc[t] = "ce_swap" /\ pc'[t] = "stop"
                    /\ cur[t].action \in {CHANNEL_AMQP_CREATE, CHANNEL_AMQP_EDIT}
                    /\ channel_amqp' = WithConsumer(cur[t].cfg, channel_amqp.consumer) ]_vars

\* A CREATE for a channel that already had a configuration and a consumer
\* has replaced the configuration and its handler is about to return.
C15_Witness ==
    \E t \in Handlers :
        /\ pc[t] = "ce_rel"
        /\ cur[t].action = CHANNEL_AMQP_CREATE
        /\ ConfigOf(channel_amqp) = cur[t].cfg
        /\ Len(consumers) = 2
        /\ consumers[1].queue # channel_amqp.queue
        /\ consumers[2].queue = channel_amqp.queue


\* The thread _amqp_consumer starts for consumer c (line 153), as an owner
\* of locks.
IoThread(c) == "io" \o Dec(c)

\* C16: whoever reads or writes channel_amqp outside _recreate_amqp_consumer
\* holds the channel lock: the handler thread on which filter compares
\* channel_amqp.id (line 123) and the I/O thread on which _on_amqp_message
\* reads channel_amqp.service (line 174).
C16_AccessUnderChannelLock ==
    [][ /\ \A t \in Handlers, msg \in Msgs :
              ( /\ OnBrokerMsg(t, msg, FALSE)
                /\ msg.action \in {CHANNEL_AMQP_EDIT, CHANNEL_AMQP_DELETE} )
              => lock["chan"] = t
        /\ \A c \in 1..Len(consumers) :
              (iopc[c] = "callback" /\ iopc'[c] = "send")
              => lock["chan"] = IoThread(c) ]_vars


\* C17: within one consumer the callback of a delivery starts only when no
\* earlier delivery is being handled; a delivery being handled is not
\* replaced by another; and when the handling of a delivery whose callback
\* returned ends, the delivery has been acknowledged.
C17_SingleOutstanding ==
    [][ \A c \in 1..Len(consumers) :
          /\ (iopc'[c] = "callback" /\ iod'[c] # iod[c]) =>
                (iopc[c] = "wait" /\ iod[c] = NoDelivery)
          /\ (iod[c] # NoDelivery /\ iod'[c] # NoDelivery) =>
                iod'[c].delivery_tag = iod[c].delivery_tag
          /\ (iopc[c] = "done" /\ iopc'[c] = "wait" /\ iod[c].callback = "returned") =>
                iod[c].acks = 1 ]_vars

\* The only consumer is with the callback of its second delivery, the first
\* having been handled to its end.
C17_Witness ==
    /\ Len(consumers) = 1
    /\ iopc[1] = "callback"
    /\ iod[1] # NoDelivery
    /\ iod[1].delivery_tag = 2


\* The lock thread t is about to take, "none" when it is not at a
\* with-statement.
WaitsFor(t) ==
    CASE pc[t] = "setup_acq_out" -> "out"
      [] pc[t] = "setup_acq_def" -> "def"
      [] pc[t] \in {"h_create", "h_edit"} -> "def"
      [] pc[t] = "ce_acq_chan" -> "chan"
      [] OTHER -> "none"

Blocked(t) == WaitsFor(t) # "none" /\ lock[WaitsFor(t)] \notin {Free, t}

\* The order in which the locks are nested.
LockRank(l) == CASE l = "out" -> 1 [] l = "def" -> 2 [] l = "chan" -> 3

\* C18: every thread takes the locks in the one order out_amqp_lock,
\* def_amqp_lock, channel_amqp_lock; no set of threads is ever such that
\* each waits for a lock another of them holds; and a lock that is held is
\* eventually released.
C18_DeadlockFree ==
    /\ [](\A t \in Threads, l \in DOMAIN lock :
            (lock[l] = t /\ WaitsFor(t) # "none") => LockRank(l) < LockRank(WaitsFor(t)))
    /\ [](\A S \in SUBSET Threads :
            S # {} => \E t \in S : ~Blocked(t) \/ lock[WaitsFor(t)] \notin S)
    /\ \A t \in Threads, l \in {"out", "def", "chan"} :
            (lock[l] = t) ~> (lock[l] # t)

\* The constructing thread holds out_amqp_lock and waits for def_amqp_lock,
\* held by a handler that also holds channel_amqp_lock.
C18_Witness ==
    /\ lock["out"] = Main
    /\ Blocked(Main)
    /\ lock["def"] \in Handlers
    /\ lock["chan"] = lock["def"]


\* The service name of the configuration consumer c was made from: the one
\* that has the queue and the tag prefix _amqp_consumer gave it.
GenerationService(c) ==
    CHOOSE s \in { Services[g] : g \in DOMAIN Services } :
        \E cfg \in Configs :
            /\ cfg.queue = consumers[c].queue
            /\ cfg.consumer_tag_prefix = consumers[c].consumer_tag_prefix
            /\ cfg.service = s

\* C19: an event published for a delivery carries the service name of the
\* configuration from which the consumer that received it was made.
C19_GenerationBinding ==
    \A c \in InFlight :
        \A i \in 1..Len(iod[c].published) :
            iod[c].published[i].service = GenerationService(c)

====
